---- MODULE Spec2Model ----
(***************************************************************************)
(* Model of backend/main.py (Monks Marketing Dashboard API): the numeric   *)
(* normalizer, the metrics loader (filter, sort, paginate), the token      *)
(* check and the /login, /me, /columns, /data and /stats handlers.         *)
(*                                                                         *)
(* Text is a sequence of one-character strings, so that strip, rfind,      *)
(* replace and float() are computed character by character.  A float is a  *)
(* record [nan, n]: n counts units of 10^-FracDigits, which is exact for   *)
(* every text the model feeds to float().                                  *)
(***************************************************************************)
EXTENDS Integers, Sequences, FiniteSets, TLC

VARIABLES
    users_csv,    \* data/users.csv: the sequence of user rows
    metrics_csv,  \* data/metrics.csv: [exists, rows]
    now,          \* the clock, in hours
    logins,       \* history: the successful logins [token, role, store, at]
    resp,         \* the last HTTP exchange: request and response
    val,          \* normalize_num: the argument
    data,         \* sort_data: the argument list
    ret           \* the result of the last call of a pure function

vars == <<users_csv, metrics_csv, now, logins, resp, val, data, ret>>

----------------------------------------------------------------------------
(* Bounds of the model *)

\* Longest text enumerated as an argument of normalize_num.
MaxLen == 3
\* Most rows in a metrics file / in a list given to sort_data.
MaxRows == 3
\* Most successful logins recorded.
MaxLogins == 2
\* The clock stops advancing here (hours).
MaxTime == 36
\* The page of rows /stats asks the loader for (5000 in the program), scaled
\* so that a file of MaxRows rows can exceed it.
SampleSize == 2

\* Decimal places a float keeps: every enumerated text has fewer.
FracDigits == MaxLen + 1

----------------------------------------------------------------------------
(* Program constants *)

ACCESS_TOKEN_EXPIRE_HOURS == 24
MAX_RECORDS_PER_REQUEST == 1000
SECRET_KEY == "monks-case-secret-key-2025"

----------------------------------------------------------------------------
(* Python values and helpers *)

Min(a, b) == IF a < b THEN a ELSE b
Max(a, b) == IF a > b THEN a ELSE b

RECURSIVE Pow10(_)
Pow10(k) == IF k = 0 THEN 1 ELSE 10 * Pow10(k - 1)

Scale == Pow10(FracDigits)

\* Python values, tagged with their type.  A str carries its characters in
\* s; a float carries n units of 1/Scale, or is nan; a datetime carries its
\* day number in n.
Str(s) == [t |-> "str", s |-> s, n |-> 0, nan |-> FALSE]
None == [t |-> "None", s |-> <<>>, n |-> 0, nan |-> FALSE]
Num(n) == [t |-> "float", s |-> <<>>, n |-> n, nan |-> FALSE]
NaN == [t |-> "float", s |-> <<>>, n |-> 0, nan |-> TRUE]
Datetime(d) == [t |-> "datetime", s |-> <<>>, n |-> d, nan |-> FALSE]

\* a + b on floats
FloatAdd(a, b) == IF a.nan \/ b.nan THEN NaN ELSE Num(a.n + b.n)

\* the outcome of a call that may raise
Returns(v) == [exc |-> "", value |-> v]
Raises(e) == [exc |-> e, value |-> None]

Digits == {"0", "1", "2", "3", "4", "5", "6", "7", "8", "9"}
DigitVal(c) ==
    CASE c = "0" -> 0 [] c = "1" -> 1 [] c = "2" -> 2 [] c = "3" -> 3
      [] c = "4" -> 4 [] c = "5" -> 5 [] c = "6" -> 6 [] c = "7" -> 7
      [] c = "8" -> 8 [] c = "9" -> 9

\* str.strip(): whitespace removed at both ends
RECURSIVE LStrip(_)
LStrip(s) == IF s # <<>> /\ Head(s) = " " THEN LStrip(Tail(s)) ELSE s
RECURSIVE RStrip(_)
RStrip(s) ==
    IF s # <<>> /\ s[Len(s)] = " " THEN RStrip(SubSeq(s, 1, Len(s) - 1)) ELSE s
Strip(s) == LStrip(RStrip(s))

\* c in s
Contains(s, c) == \E i \in 1..Len(s) : s[i] = c
\* s.find(c), s.rfind(c): the lowest, highest index of c, 0-based, or -1
Find(s, c) ==
    IF Contains(s, c)
    THEN (CHOOSE i \in 1..Len(s) : s[i] = c /\ \A j \in 1..(i - 1) : s[j] # c) - 1
    ELSE -1
RFind(s, c) ==
    IF Contains(s, c)
    THEN (CHOOSE i \in 1..Len(s) :
              s[i] = c /\ \A j \in (i + 1)..Len(s) : s[j] # c) - 1
    ELSE -1
\* s.replace(c, d) for one character c and a text d
RECURSIVE Replace(_, _, _)
Replace(s, c, d) ==
    IF s = <<>> THEN <<>>
    ELSE (IF Head(s) = c THEN d ELSE <<Head(s)>>) \o Replace(Tail(s), c, d)

\* the digits of s read as a decimal integer
RECURSIVE DigitsValue(_)
DigitsValue(s) ==
    IF s = <<>> THEN 0
    ELSE 10 * DigitsValue(SubSeq(s, 1, Len(s) - 1)) + DigitVal(s[Len(s)])

AllDigits(s) == \A i \in 1..Len(s) : s[i] \in Digits

\* float(s) for a text s over digits, '.', ',', ' ', letters: surrounding
\* whitespace is ignored, "nan" is a float, and the rest must be digits with
\* at most one '.' and at least one digit; anything else is a ValueError.
FloatOfParts(ip, fp) ==
    IF AllDigits(ip) /\ AllDigits(fp) /\ Len(ip) + Len(fp) > 0
       /\ Len(fp) <= FracDigits
    THEN Returns(Num(DigitsValue(ip) * Scale
                     + DigitsValue(fp) * Pow10(FracDigits - Len(fp))))
    ELSE Raises("ValueError")
FloatOfStripped(t, dot) ==
    IF t = <<"n", "a", "n">> THEN Returns(NaN)
    ELSE IF dot < 0 THEN FloatOfParts(t, <<>>)
    ELSE FloatOfParts(SubSeq(t, 1, dot), SubSeq(t, dot + 2, Len(t)))
FloatOfWhole(t) == FloatOfStripped(t, RFind(t, "."))
FloatOfText(s) == FloatOfWhole(Strip(s))

\* float(v) for any value
Float(v) ==
    CASE v.t = "str" -> FloatOfText(v.s)
      [] v.t = "float" -> Returns(v)
      [] OTHER -> Raises("TypeError")

----------------------------------------------------------------------------
(* load_metrics_optimized.normalize_num *)

\* the text handed to float(): s with its separators rewritten
Separators(s) ==
    IF Contains(s, ",")
    THEN IF Contains(s, ".") /\ RFind(s, ".") < RFind(s, ",")
         THEN Replace(Replace(s, ".", <<>>), ",", <<".">>)
         ELSE Replace(s, ",", <<".">>)
    ELSE s

normalize_num(v) ==
    IF v.t = "None" \/ (v.t = "str" /\ v.s = <<>>) THEN Returns(Num(0))
    ELSE IF v.t # "str" THEN Float(v)
    ELSE FloatOfText(Separators(Strip(v.s)))

----------------------------------------------------------------------------
(* datetime.strptime(text, '%Y-%m-%d') and datetime.strftime('%Y-%m-%d') *)

IsLeap(y) == (y % 4 = 0 /\ y % 100 # 0) \/ y % 400 = 0
DaysInMonth(y, m) ==
    IF m = 2 THEN (IF IsLeap(y) THEN 29 ELSE 28)
    ELSE IF m \in {4, 6, 9, 11} THEN 30 ELSE 31

\* A day number that orders datetimes as the calendar does.
DayNumber(y, m, d) == (y * 12 + (m - 1)) * 31 + (d - 1)
YearOf(n) == (n \div 31) \div 12
MonthOf(n) == ((n \div 31) % 12) + 1
DayOf(n) == (n % 31) + 1

\* datetime.min is 0001-01-01
DatetimeMin == Datetime(DayNumber(1, 1, 1))

\* %m matches 1[0-2]|0[1-9]|[1-9]; %d matches 3[01]|[12]\d|0[1-9]|[1-9]| [1-9]
MonthField(s) ==
    /\ Len(s) \in {1, 2}
    /\ AllDigits(s)
    /\ DigitsValue(s) \in 1..12
DayField(s) ==
    \/ Len(s) \in {1, 2} /\ AllDigits(s) /\ DigitsValue(s) \in 1..31
    \/ Len(s) = 2 /\ s[1] = " " /\ s[2] \in Digits \ {"0"}

\* the date of a year, a month and a day that exist
DateOf(y, m, d) ==
    IF y >= 1 /\ d <= DaysInMonth(y, m) THEN Returns(Datetime(DayNumber(y, m, d)))
    ELSE Raises("ValueError")

\* the three fields of a text split at its first and last '-'
StrptimeFields(ys, ms, ds) ==
    IF Len(ys) = 4 /\ AllDigits(ys) /\ MonthField(ms) /\ DayField(ds)
    THEN DateOf(DigitsValue(ys), DigitsValue(ms), DigitsValue(LStrip(ds)))
    ELSE Raises("ValueError")

StrptimeSplit(s, i, j) ==
    IF i >= 0 /\ i < j
    THEN StrptimeFields(SubSeq(s, 1, i), SubSeq(s, i + 2, j), SubSeq(s, j + 2, Len(s)))
    ELSE Raises("ValueError")

Strptime(v) ==
    IF v.t # "str" THEN Raises("TypeError")
    ELSE StrptimeSplit(v.s, Find(v.s, "-"), RFind(v.s, "-"))

DigitChar(k) == <<"0", "1", "2", "3", "4", "5", "6", "7", "8", "9">>[k + 1]
\* the decimal digits of k >= 0, zero-padded to at least w characters
RECURSIVE Pad(_, _)
Pad(k, w) ==
    IF k < 10 /\ w <= 1 THEN <<DigitChar(k)>>
    ELSE Pad(k \div 10, w - 1) \o <<DigitChar(k % 10)>>

\* (years of the model's texts have four digits)
Strftime(dt) ==
    Pad(YearOf(dt.n), 4) \o <<"-">> \o Pad(MonthOf(dt.n), 2) \o <<"-">>
        \o Pad(DayOf(dt.n), 2)

----------------------------------------------------------------------------
(* list.sort(key=..., reverse=...) as CPython runs it on a short list: the  *)
(* keys are compared with < only; a list reversed before and after the     *)
(* sort when reverse is set; one run found by count_run, the rest inserted *)
(* by binary insertion.  p is a sequence of positions of the list, K the   *)
(* key at each position.                                                    *)

\* Characters in code-point order, for str < str
Alphabet ==
    <<" ", ",", "-", ".", "0", "1", "2", "3", "4", "5", "6", "7", "8", "9",
      "N", "a", "b", "c", "e", "n", "o", "x">>
Code(c) == CHOOSE i \in 1..Len(Alphabet) : Alphabet[i] = c

RECURSIVE TextLt(_, _)
TextLt(a, b) ==
    IF b = <<>> THEN FALSE
    ELSE IF a = <<>> THEN TRUE
    ELSE IF Head(a) # Head(b) THEN Code(Head(a)) < Code(Head(b))
    ELSE TextLt(Tail(a), Tail(b))

\* a < b for two keys of one type
KeyLt(a, b) ==
    CASE a.t = "str" -> TextLt(a.s, b.s)
      [] a.t = "float" -> ~a.nan /\ ~b.nan /\ a.n < b.n
      [] OTHER -> a.n < b.n

Reverse(p) == [i \in 1..Len(p) |-> p[Len(p) + 1 - i]]

\* count_run: the length of the run that starts the list, and whether it
\* is (strictly) descending
RECURSIVE RunEnd(_, _, _, _)
RunEnd(p, K, i, desc) ==
    IF i > Len(p) THEN Len(p)
    ELSE IF KeyLt(K[p[i]], K[p[i - 1]]) = desc THEN RunEnd(p, K, i + 1, desc)
    ELSE i - 1

CountRun(p, K) ==
    IF Len(p) < 2 THEN [n |-> Len(p), descending |-> FALSE]
    ELSE LET desc == KeyLt(K[p[2]], K[p[1]])
         IN  [n |-> RunEnd(p, K, 3, desc), descending |-> desc]

\* binarysort's search: where the pivot goes among p[l+1 .. r] (0-based l, r)
RECURSIVE BinarySearch(_, _, _, _, _)
BinarySearch(p, K, pivot, l, r) ==
    IF l >= r THEN l
    ELSE LET m == l + ((r - l) \div 2)
         IN  IF KeyLt(K[pivot], K[p[m + 1]])
             THEN BinarySearch(p, K, pivot, l, m)
             ELSE BinarySearch(p, K, pivot, m + 1, r)

\* binarysort: p[1..start] is sorted; insert p[start+1], p[start+2], ...
RECURSIVE BinarySort(_, _, _)
BinarySort(p, K, start) ==
    IF start >= Len(p) THEN p
    ELSE LET pivot == p[start + 1]
             l == BinarySearch(p, K, pivot, 0, start)
             q == SubSeq(p, 1, l) \o <<pivot>> \o SubSeq(p, l + 1, start)
                      \o SubSeq(p, start + 2, Len(p))
         IN  BinarySort(q, K, start + 1)

\* a descending run is reversed in place, then the rest is inserted
SortFromRun(p, K, run) ==
    BinarySort(IF run.descending
               THEN Reverse(SubSeq(p, 1, run.n)) \o SubSeq(p, run.n + 1, Len(p))
               ELSE p,
               K, run.n)

ListSortAscending(p, K) == SortFromRun(p, K, CountRun(p, K))

\* The positions 1..Len(K) in the order list.sort leaves the elements.
ListSort(K, reverse) ==
    IF reverse
    THEN Reverse(ListSortAscending(Reverse([i \in 1..Len(K) |-> i]), K))
    ELSE ListSortAscending([i \in 1..Len(K) |-> i], K)

----------------------------------------------------------------------------
(* sort_data *)

NumericFields ==
    <<"cost_micros", "clicks", "conversions", "impressions", "interactions">>
NumericFieldSet == {NumericFields[i] : i \in 1..Len(NumericFields)}

\* x.get(k, default)
Get(x, k, default) == IF k \in DOMAIN x THEN x[k] ELSE default

\* str(v) of a str or None
StrOf(v) == IF v.t = "None" THEN <<"N", "o", "n", "e">> ELSE v.s

\* try: return <r>  except: return default
ValueOr(r, default) == IF r.exc = "" THEN r.value ELSE default

DateOrMin(v) == IF v.t = "datetime" THEN v ELSE ValueOr(Strptime(v), DatetimeMin)
date_key(x) == DateOrMin(Get(x, "date", None))

num_key(x, sort_by) == ValueOr(Float(Get(x, sort_by, Num(0))), Num(0))

str_key(x, sort_by) == Str(StrOf(Get(x, sort_by, Str(<<>>))))

\* the key sort_data sorts by, for a supported field
SortKey(x, sort_by) ==
    IF sort_by = "date" THEN date_key(x)
    ELSE IF sort_by \in NumericFieldSet THEN num_key(x, sort_by)
    ELSE str_key(x, sort_by)

SupportedFields == {"date", "account_id", "campaign_id"} \cup NumericFieldSet

\* the positions of rows in the order sort_data leaves them
SortOrder(rows, sort_by, sort_desc) ==
    IF sort_by \in SupportedFields
    THEN ListSort([i \in 1..Len(rows) |-> SortKey(rows[i], sort_by)], sort_desc)
    ELSE [i \in 1..Len(rows) |-> i]

\* rows in the order p
Permuted(rows, p) == [i \in 1..Len(rows) |-> rows[p[i]]]

sort_data(rows, sort_by, sort_desc) ==
    Permuted(rows, SortOrder(rows, sort_by, sort_desc))

----------------------------------------------------------------------------
(* load_metrics_optimized *)

\* start_dt / end_dt: a bound that is absent, empty or does not parse is None
ParseBound(d) ==
    IF d.t = "None" \/ d.s = <<>> THEN None
    ELSE ValueOr(Strptime(d), None)

\* One pass of the loop over the reader: the row is appended to all_metrics
\* ("keep"), passed over ("skip": continue), or ends the loop with an
\* exception the loop does not catch ("raise").
Skip == [outcome |-> "skip", row |-> <<>>]
Abort == [outcome |-> "raise", row |-> <<>>]

\* the pass, given the parsed date and the five normalized numbers
RowOutcome(row, row_date, nums, start_dt, end_dt) ==
    LET failed == {i \in 1..Len(nums) : nums[i].exc # ""}
        first == CHOOSE i \in failed : \A j \in failed : i <= j
    IN  IF row_date.exc = "ValueError" THEN Skip
        ELSE IF row_date.exc # "" THEN Abort
        ELSE IF start_dt # None /\ row_date.value.n < start_dt.n THEN Skip
        ELSE IF end_dt # None /\ row_date.value.n > end_dt.n THEN Skip
        ELSE IF failed # {}
        THEN (IF nums[first].exc = "ValueError" THEN Skip ELSE Abort)
        ELSE [outcome |-> "keep",
              row |-> [k \in DOMAIN row \cup NumericFieldSet |->
                         IF k = "date" THEN row_date.value
                         ELSE IF k \in NumericFieldSet
                         THEN nums[CHOOSE i \in 1..Len(nums) : NumericFields[i] = k].value
                         ELSE row[k]]]

ProcessRow(row, start_dt, end_dt) ==
    IF "date" \notin DOMAIN row THEN Skip                       \* KeyError
    ELSE RowOutcome(row, Strptime(row["date"]),
                    [i \in 1..Len(NumericFields) |->
                        normalize_num(Get(row, NumericFields[i], Str(<<"0">>)))],
                    start_dt, end_dt)

\* the rows appended, in order
RECURSIVE Kept(_)
Kept(outcomes) ==
    IF outcomes = <<>> THEN <<>>
    ELSE (IF Head(outcomes).outcome = "keep" THEN <<Head(outcomes).row>> ELSE <<>>)
             \o Kept(Tail(outcomes))

\* all_metrics after the loop, or the exception that ended it
Collected(outcomes) ==
    IF \E i \in 1..Len(outcomes) : outcomes[i].outcome = "raise"
    THEN [exc |-> "Exception", value |-> <<>>]
    ELSE Returns(Kept(outcomes))

ReadRows(rows, start_dt, end_dt) ==
    Collected([i \in 1..Len(rows) |-> ProcessRow(rows[i], start_dt, end_dt)])

\* seq[a:b]
SliceIndex(k, n) == IF k < 0 THEN Max(k + n, 0) ELSE Min(k, n)
Slice(seq, a, b) == SubSeq(seq, SliceIndex(a, Len(seq)) + 1, SliceIndex(b, Len(seq)))

\* (mutant of Paginate: the page counted from 0)
PaginateFromZero(all_metrics, page, page_size) ==
    LET start_idx == page * page_size
        end_idx == start_idx + page_size
    IN  Slice(all_metrics, start_idx, end_idx)

\* all_metrics[start_idx:end_idx] of one page
Paginate(all_metrics, page, page_size) ==
    LET start_idx == (page - 1) * page_size
        end_idx == start_idx + page_size
    IN  Slice(all_metrics, start_idx, end_idx)

\* what the function returns once the reader is exhausted or has failed
Loaded(r, sort_by, sort_desc, page, page_size) ==
    IF r.exc # "" THEN [data |-> <<>>, total |-> 0]
    ELSE [data |-> Paginate(sort_data(r.value, sort_by, sort_desc), page, page_size),
          total |-> Len(r.value)]

load_metrics_optimized(file, start_date, end_date, sort_by, sort_desc, page, page_size) ==
    IF ~file.exists THEN [data |-> <<>>, total |-> 0]
    ELSE Loaded(ReadRows(file.rows, ParseBound(start_date), ParseBound(end_date)),
                sort_by, sort_desc, page, page_size)

----------------------------------------------------------------------------
(* Users and tokens *)

\* load_users: the rows of users.csv, or [] when the file cannot be read
load_users(file) == IF file.exists THEN file.rows ELSE <<>>

\* next((u for u in users if ...), None), given the positions that match
FirstUser(users, matching) ==
    IF matching = {} THEN Raises("None")
    ELSE Returns(users[CHOOSE i \in matching : \A j \in matching : i <= j])

UserMatching(users, username, password) ==
    FirstUser(users, {i \in 1..Len(users) : /\ users[i].username = username
                                            /\ users[i].password = password})

authenticate_user(file, username, password) ==
    UserMatching(load_users(file), username, password)

\* A bearer credential: none at all, text that is no JWT, or a JWT with its
\* subject, its expiry (an hour of the clock) and the key that signed it.
NoSub == <<>>
NoCredentials == [kind |-> "none", sub |-> NoSub, exp |-> 0, key |-> ""]
Garbage == [kind |-> "garbage", sub |-> NoSub, exp |-> 0, key |-> ""]
Jwt(sub, exp, key) == [kind |-> "jwt", sub |-> sub, exp |-> exp, key |-> key]

create_access_token(sub, clock) ==
    Jwt(sub, clock + ACCESS_TOKEN_EXPIRE_HOURS, SECRET_KEY)

\* jwt.decode(token, SECRET_KEY): the payload, or JWTError for a token that
\* is not a JWT, is signed with another key, or whose exp is before the clock
jwt_decode(token, clock) ==
    IF token.kind # "jwt" \/ token.key # SECRET_KEY \/ token.exp < clock
    THEN Raises("JWTError")
    ELSE Returns(token)

Unauthorized == [exc |-> "HTTPException", status |-> 401, challenge |-> TRUE,
                 user |-> None]
Forbidden == [exc |-> "HTTPException", status |-> 403, challenge |-> FALSE,
              user |-> None]
Authenticated(u) == [exc |-> "", status |-> 200, challenge |-> FALSE, user |-> u]

UserNamed(users, username) ==
    FirstUser(users, {i \in 1..Len(users) : users[i].username = username})

get_current_user(token, file, clock) ==
    LET payload == jwt_decode(token, clock)
        user == UserNamed(load_users(file), payload.value.sub)
    IN  IF payload.exc # "" THEN Unauthorized
        ELSE IF payload.value.sub = NoSub THEN Unauthorized
        ELSE IF user.exc # "" THEN Unauthorized
        ELSE Authenticated(user.value)

\* Depends(get_current_user) behind HTTPBearer(): a request with no bearer
\* credentials is rejected by the scheme itself, with 403 or, in later
\* releases of the framework, with 401 and a challenge.
CurrentUser(cred, file, clock) ==
    IF cred.kind = "none" THEN {Forbidden, Unauthorized}
    ELSE {get_current_user(cred, file, clock)}

----------------------------------------------------------------------------
(* Presenter: format_br, and the stats' f"{x:,.0f}" *)

\* n / d rounded to the nearest integer, ties to even (n >= 0, d > 0).  The
\* metrics texts of the model have at most two decimals, so no tie occurs.
RoundDiv(n, d) ==
    LET q == n \div d
        r == n % d
    IN  IF 2 * r > d \/ (2 * r = d /\ q % 2 = 1) THEN q + 1 ELSE q

\* the digits of k >= 0 in groups of three joined by sep
RECURSIVE Grouped(_, _)
Grouped(k, sep) ==
    IF k < 1000 THEN Pad(k, 1)
    ELSE Grouped(k \div 1000, sep) \o <<sep>> \o Pad(k % 1000, 3)

\* f"{value:,.2f}" with ',' and '.' exchanged; "0,00" for zero
format_br(v) ==
    IF v.nan THEN <<"n", "a", "n">>
    ELSE IF v.n = 0 THEN <<"0", ",", "0", "0">>
    ELSE LET cents == RoundDiv(v.n, Scale \div 100)
         IN  Grouped(cents \div 100, ".") \o <<",">> \o Pad(cents % 100, 2)

\* f"{value:,.0f}"
format_int(v) ==
    IF v.nan THEN <<"n", "a", "n">> ELSE Grouped(RoundDiv(v.n, Scale), ",")

----------------------------------------------------------------------------
(* Route handlers.  Each returns the response for a request; the actions   *)
(* below record it in resp.                                                *)

\* LoginRequest's validator: the username stripped, rejected when empty
login(file, username, password, clock) ==
    LET name == Strip(username)
        user == authenticate_user(file, name, password)
    IN  IF name = <<>> THEN [status |-> 422]
        ELSE IF user.exc # "" THEN [status |-> 401, challenge |-> FALSE]
        ELSE [status |-> 200,
              access_token |-> create_access_token(user.value.username, clock),
              token_type |-> "bearer",
              user |-> [username |-> user.value.username, role |-> user.value.role]]

get_user_info(current_user) ==
    [status |-> 200, username |-> current_user.username, role |-> current_user.role]

base_columns ==
    <<"account_id", "campaign_id", "clicks", "conversions", "impressions",
      "interactions", "date">>

get_available_columns(current_user) ==
    [status |-> 200,
     columns |-> IF current_user.role = "admin"
                 THEN SubSeq(base_columns, 1, 2) \o <<"cost_micros">>
                          \o SubSeq(base_columns, 3, Len(base_columns))
                 ELSE base_columns]

\* (mutant of FormatRow: cost_micros set whatever the role)
FormatRowAnyRole(row, current_user) ==
    [k \in {"account_id", "campaign_id", "clicks", "conversions", "impressions",
            "interactions", "date", "cost_micros"} |->
        IF k \in {"account_id", "campaign_id"} THEN StrOf(Get(row, k, Str(<<>>)))
        ELSE IF k = "date" THEN Strftime(row[k])
        ELSE format_br(Get(row, k, Num(0)))]

\* one item of response_data
FormatRow(row, current_user) ==
    [k \in {"account_id", "campaign_id", "clicks", "conversions", "impressions",
            "interactions", "date"}
           \cup (IF current_user.role = "admin" THEN {"cost_micros"} ELSE {}) |->
        IF k \in {"account_id", "campaign_id"} THEN StrOf(Get(row, k, Str(<<>>)))
        ELSE IF k = "date" THEN Strftime(row[k])
        ELSE format_br(Get(row, k, Num(0)))]

\* a // b
FloorDiv(a, b) == IF b > 0 THEN a \div b ELSE (-a) \div (-b)

\* the response built from the loader's page r
MetricsResponse(r, page, page_size, current_user) ==
    IF r.data = <<>>
    THEN [status |-> 200, data |-> <<>>, total |-> 0, page |-> page,
          page_size |-> page_size, total_pages |-> 0,
          message |-> "Nenhum dado encontrado"]
    ELSE [status |-> 200,
          data |-> [i \in 1..Len(r.data) |-> FormatRow(r.data[i], current_user)],
          total |-> r.total, page |-> page, page_size |-> page_size,
          total_pages |-> FloorDiv(r.total + page_size - 1, page_size),
          showing |-> Len(r.data)]

\* page_size and page as the handler clamps them
ClampedMetrics(file, start_date, end_date, sort_by, sort_desc, page, page_size, current_user) ==
    MetricsResponse(load_metrics_optimized(file, start_date, end_date, sort_by,
                                           sort_desc, page, page_size),
                    page, page_size, current_user)

get_metrics_data(file, start_date, end_date, sort_by, sort_desc, page, page_size, current_user) ==
    ClampedMetrics(file, start_date, end_date, sort_by, sort_desc,
                   Max(1, page), Min(page_size, MAX_RECORDS_PER_REQUEST), current_user)

\* sum(row.get(field, 0) for row in rows)
RECURSIVE Sum(_, _)
Sum(rows, field) ==
    IF rows = <<>> THEN Num(0)
    ELSE FloatAdd(Sum(SubSeq(rows, 1, Len(rows) - 1), field),
                  Get(rows[Len(rows)], field, Num(0)))

\* the "note" of a /stats response: None, or the text naming the sample size
NoNote == [null |-> TRUE, sample |-> 0]
Note(k) == [null |-> FALSE, sample |-> k]

\* (mutant of StatsResponse: the note given when total >= the sample)
StatsResponseNoteAtEqual(r) ==
    IF r.data = <<>>
    THEN [status |-> 200, total_records |-> 0, total_clicks |-> <<"0">>,
          total_conversions |-> <<"0">>, total_impressions |-> <<"0">>]
    ELSE [status |-> 200, total_records |-> r.total,
          total_clicks |-> format_int(Sum(r.data, "clicks")),
          total_conversions |-> format_int(Sum(r.data, "conversions")),
          total_impressions |-> format_int(Sum(r.data, "impressions")),
          note |-> IF r.total >= Len(r.data) THEN Note(Len(r.data)) ELSE NoNote]

\* the response built from the loader's sample r
StatsResponse(r) ==
    IF r.data = <<>>
    THEN [status |-> 200, total_records |-> 0, total_clicks |-> <<"0">>,
          total_conversions |-> <<"0">>, total_impressions |-> <<"0">>]
    ELSE [status |-> 200, total_records |-> r.total,
          total_clicks |-> format_int(Sum(r.data, "clicks")),
          total_conversions |-> format_int(Sum(r.data, "conversions")),
          total_impressions |-> format_int(Sum(r.data, "impressions")),
          note |-> IF r.total > Len(r.data) THEN Note(Len(r.data)) ELSE NoNote]

get_basic_stats(file, start_date, end_date) ==
    StatsResponse(load_metrics_optimized(file, start_date, end_date,
                                         "date", FALSE, 1, SampleSize))

----------------------------------------------------------------------------
(* Inputs: texts, metrics rows and files, user stores, requests *)

Chars == {"1", "5", ".", ",", " ", "x"}

RECURSIVE TextsOfLen(_)
TextsOfLen(k) ==
    IF k = 0 THEN {<<>>}
    ELSE {<<c>> \o t : c \in Chars, t \in TextsOfLen(k - 1)}

Texts == UNION {TextsOfLen(k) : k \in 0..MaxLen}

T_1234_56_br == <<"1", ".", "2", "3", "4", ",", "5", "6">>
T_1234_56_us == <<"1", ",", "2", "3", "4", ".", "5", "6">>
T_50 == <<"5", "0">>
T_nan == <<"n", "a", "n">>
T_abc == <<"a", "b", "c">>

Examples == {T_1234_56_br, T_1234_56_us, T_50, T_nan, T_abc}

\* the arguments normalize_num is applied to
NumArgs == {Str(t) : t \in Texts \cup Examples} \cup {None}

D_0101 == <<"2", "0", "2", "4", "-", "0", "1", "-", "0", "1">>
D_0102 == <<"2", "0", "2", "4", "-", "0", "1", "-", "0", "2">>
D_0103 == <<"2", "0", "2", "4", "-", "0", "1", "-", "0", "3">>
D_12 == <<"2", "0", "2", "4", "-", "1", "-", "2">>
D_bad == <<"0", "2", "-", "0", "1", "-", "2", "0", "2", "4">>

\* One row of metrics.csv as csv.DictReader yields it: every value a str, or
\* None in a row shorter than the header.
MetricRow(account_id, campaign_id, date, clicks, conversions, impressions, interactions, cost_micros) ==
    [k \in {"account_id", "campaign_id", "date"} \cup NumericFieldSet |->
        CASE k = "account_id" -> account_id
          [] k = "campaign_id" -> campaign_id
          [] k = "date" -> date
          [] k = "clicks" -> clicks
          [] k = "conversions" -> conversions
          [] k = "impressions" -> impressions
          [] k = "interactions" -> interactions
          [] k = "cost_micros" -> cost_micros]

\* Well-formed rows: two of them share a date and a number of clicks.
GoodRows ==
    << MetricRow(Str(<<"1">>), Str(<<"a">>), Str(D_0102), Str(<<"5">>),
                 Str(<<"1">>), Str(T_1234_56_br), Str(<<"0">>), Str(T_50)),
       MetricRow(Str(<<"1", "0">>), Str(<<"b">>), Str(D_0101), Str(<<"5">>),
                 Str(<<>>), Str(<<"1">>), Str(<<"1">>), Str(<<"1", ",", "5">>)),
       MetricRow(Str(<<"9">>), Str(<<"a">>), Str(D_12), Str(<<"1", "5">>),
                 Str(<<"1">>), Str(<<"1">>), Str(<<"1">>), Str(<<"0">>)),
       MetricRow(Str(<<"1">>), Str(<<"c">>), Str(D_0103), Str(<<"1">>),
                 Str(<<"1">>), Str(<<"5">>), Str(<<"1">>), Str(<<"5">>)) >>

\* Rows with something wrong: a number that is text, a number in the
\* 1,234.56 style, a date in another format, a short row (no date, no
\* numbers), nan, a blank number.
OddRows ==
    << MetricRow(Str(<<"1">>), Str(<<"a">>), Str(D_0102), Str(T_abc),
                 Str(<<"1">>), Str(<<"1">>), Str(<<"1">>), Str(<<"1">>)),
       MetricRow(Str(<<"1">>), Str(<<"b">>), Str(D_0101), Str(<<"1">>),
                 Str(<<"1">>), Str(T_1234_56_us), Str(<<"1">>), Str(<<"1">>)),
       MetricRow(Str(<<"9">>), Str(<<"a">>), Str(D_bad), Str(<<"1">>),
                 Str(<<"1">>), Str(<<"1">>), Str(<<"1">>), Str(<<"1">>)),
       MetricRow(Str(<<"9">>), Str(<<"c">>), None, None, None, None, None, None),
       MetricRow(Str(<<"5">>), Str(<<"a">>), Str(D_0103), Str(<<"5">>),
                 Str(T_nan), Str(<<"1">>), Str(<<"1">>), Str(<<"1">>)),
       MetricRow(Str(<<"5">>), Str(<<"b">>), Str(D_0102), Str(<<"1">>),
                 Str(<<"1">>), Str(<<"1">>), Str(<<"1">>), Str(<<" ">>)) >>

Range(seq) == {seq[i] : i \in 1..Len(seq)}

RECURSIVE SeqsOfLen(_, _)
SeqsOfLen(S, k) ==
    IF k = 0 THEN {<<>>}
    ELSE {<<x>> \o t : x \in S, t \in SeqsOfLen(S, k - 1)}
SeqsUpTo(S, k) == UNION {SeqsOfLen(S, j) : j \in 0..k}

\* a file whose header lacks the columns in missing
WithoutColumns(rows, missing) ==
    [i \in 1..Len(rows) |-> [k \in DOMAIN rows[i] \ missing |-> rows[i][k]]]

File(rows) == [exists |-> TRUE, rows |-> rows]
NoFile == [exists |-> FALSE, rows |-> <<>>]

\* metrics.csv as the loader is exercised on it
LoadFiles ==
    {NoFile}
    \cup {File(WithoutColumns(rows, missing)) :
            rows \in SeqsUpTo({GoodRows[1], GoodRows[2]} \cup Range(OddRows), MaxRows),
            missing \in {{}, {"clicks"}, {"date"}}}

\* metrics.csv as /data and /stats are exercised on it
DataFiles ==
    {NoFile}
    \cup {File(rows) : rows \in SeqsUpTo({GoodRows[1], GoodRows[2], GoodRows[3],
                                           OddRows[1]}, MaxRows)}

\* metrics.csv where the requests vary in their credentials
ApiFiles == {NoFile, File(SubSeq(GoodRows, 1, 2))}

BoundArgs == {None, Str(<<>>), Str(D_0102), Str(D_bad)}
SortArgs == SupportedFields \cup {"other"}

U(username, password, role) ==
    [username |-> username, password |-> password, role |-> role]
ana == <<"a", "n", "a">>
bob == <<"b", "o", "b">>

\* users.csv: two users; one username on two rows; one user; no file
UserStores ==
    { File(<<U(ana, "p1", "admin"), U(bob, "p2", "viewer")>>),
      File(<<U(bob, "p1", "admin"), U(bob, "p2", "viewer")>>),
      File(<<U(bob, "p2", "viewer")>>),
      NoFile }

Usernames == {ana, bob, <<" ">> \o bob, <<>>}
Passwords == {"p1", "p2"}

\* rows as sort_data may be given them: loaded rows, and rows whose values
\* are still text, None or absent
SortRows ==
    {ProcessRow(GoodRows[i], None, None).row : i \in 1..3}
    \cup {ProcessRow(OddRows[5], None, None).row,
          [GoodRows[1] EXCEPT !["clicks"] = Str(T_abc), !["account_id"] = None],
          WithoutColumns(<<GoodRows[4]>>, {"date", "clicks", "campaign_id"})[1]}

----------------------------------------------------------------------------
(* State machine *)

NoCall == [fn |-> ""]
NoExchange == [op |-> ""]

Idle(users, metrics) ==
    /\ users_csv = users
    /\ metrics_csv = metrics
    /\ now = 0
    /\ logins = {}
    /\ resp = NoExchange
    /\ ret = NoCall

CallNormalize ==
    /\ ret = NoCall
    /\ ret' = [fn |-> "normalize_num", result |-> normalize_num(val)]
    /\ UNCHANGED <<users_csv, metrics_csv, now, logins, resp, val, data>>

CallSort(sort_by, sort_desc) ==
    /\ ret = NoCall
    /\ ret' = [fn |-> "sort_data", sort_by |-> sort_by, sort_desc |-> sort_desc,
               order |-> SortOrder(data, sort_by, sort_desc),
               result |-> sort_data(data, sort_by, sort_desc)]
    /\ UNCHANGED <<users_csv, metrics_csv, now, logins, resp, val, data>>

CallLoad(start_date, end_date, sort_by, sort_desc, page, page_size) ==
    /\ ret = NoCall
    /\ ret' = [fn |-> "load_metrics_optimized",
               start_date |-> start_date, end_date |-> end_date,
               sort_by |-> sort_by, sort_desc |-> sort_desc,
               page |-> page, page_size |-> page_size,
               result |-> load_metrics_optimized(metrics_csv, start_date, end_date,
                                                 sort_by, sort_desc, page, page_size)]
    /\ UNCHANGED <<users_csv, metrics_csv, now, logins, resp, val, data>>

\* POST /login
Login(username, password) ==
    LET r == login(users_csv, username, password, now)
        entry == [token |-> r.access_token, role |-> r.user.role,
                  store |-> users_csv, at |-> now]
    IN  /\ resp = NoExchange
        /\ r.status = 200 => entry \in logins \/ Cardinality(logins) < MaxLogins
        /\ resp' = [op |-> "login", username |-> username, password |-> password,
                    response |-> r]
        /\ logins' = IF r.status = 200 THEN logins \cup {entry} ELSE logins
        /\ UNCHANGED <<users_csv, metrics_csv, now, val, data, ret>>

\* the response of a protected route whose dependency raised
Rejection(auth) == [status |-> auth.status, challenge |-> auth.challenge]

\* GET /me
GetUserInfo(cred) ==
    /\ resp = NoExchange
    /\ \E auth \in CurrentUser(cred, users_csv, now) :
          resp' = [op |-> "me", cred |-> cred,
                   response |-> IF auth.exc # "" THEN Rejection(auth)
                                ELSE get_user_info(auth.user)]
    /\ UNCHANGED <<users_csv, metrics_csv, now, logins, val, data, ret>>

\* GET /columns
GetAvailableColumns(cred) ==
    /\ resp = NoExchange
    /\ \E auth \in CurrentUser(cred, users_csv, now) :
          resp' = [op |-> "columns", cred |-> cred,
                   response |-> IF auth.exc # "" THEN Rejection(auth)
                                ELSE get_available_columns(auth.user)]
    /\ UNCHANGED <<users_csv, metrics_csv, now, logins, val, data, ret>>

\* GET /data
GetMetricsData(cred, start_date, end_date, sort_by, sort_desc, page, page_size) ==
    /\ resp = NoExchange
    /\ \E auth \in CurrentUser(cred, users_csv, now) :
          resp' = [op |-> "data", cred |-> cred,
                   start_date |-> start_date, end_date |-> end_date,
                   sort_by |-> sort_by, sort_desc |-> sort_desc,
                   page |-> page, page_size |-> page_size,
                   response |-> IF auth.exc # "" THEN Rejection(auth)
                                ELSE get_metrics_data(metrics_csv, start_date,
                                         end_date, sort_by, sort_desc, page,
                                         page_size, auth.user)]
    /\ UNCHANGED <<users_csv, metrics_csv, now, logins, val, data, ret>>

\* GET /stats
GetBasicStats(cred, start_date, end_date) ==
    /\ resp = NoExchange
    /\ \E auth \in CurrentUser(cred, users_csv, now) :
          resp' = [op |-> "stats", cred |-> cred,
                   start_date |-> start_date, end_date |-> end_date,
                   response |-> IF auth.exc # "" THEN Rejection(auth)
                                ELSE get_basic_stats(metrics_csv, start_date, end_date)]
    /\ UNCHANGED <<users_csv, metrics_csv, now, logins, val, data, ret>>

\* the response is sent: the exchange is over
Complete ==
    /\ resp # NoExchange
    /\ resp' = NoExchange
    /\ UNCHANGED <<users_csv, metrics_csv, now, logins, val, data, ret>>

\* time passes
Tick ==
    /\ resp = NoExchange
    /\ now + 12 <= MaxTime
    /\ now' = now + 12
    /\ UNCHANGED <<users_csv, metrics_csv, logins, resp, val, data, ret>>

\* users.csv is edited
ChangeUsers(store) ==
    /\ resp = NoExchange
    /\ store # users_csv
    /\ users_csv' = store
    /\ UNCHANGED <<metrics_csv, now, logins, resp, val, data, ret>>

\* the credentials a caller can present: none, text that is no token, a
\* token some login returned, a token signed with a key of the caller's own
Credentials ==
    {NoCredentials, Garbage, Jwt(ana, now + ACCESS_TOKEN_EXPIRE_HOURS, "forged")}
    \cup {e.token : e \in logins}

----------------------------------------------------------------------------
(* SpecNorm: normalize_num applied to every text *)

InitNorm ==
    /\ Idle(NoFile, NoFile)
    /\ val \in NumArgs
    /\ data = <<>>

NextNorm == CallNormalize

SpecNorm == InitNorm /\ [][NextNorm]_vars

----------------------------------------------------------------------------
(* SpecSort: sort_data applied to every short list of rows *)

InitSort ==
    /\ Idle(NoFile, NoFile)
    /\ val = None
    /\ data \in SeqsUpTo(SortRows, MaxRows)

NextSort == \E sort_by \in SortArgs, sort_desc \in BOOLEAN : CallSort(sort_by, sort_desc)

SpecSort == InitSort /\ [][NextSort]_vars

----------------------------------------------------------------------------
(* SpecLoad: load_metrics_optimized applied to every short file *)

InitLoad ==
    /\ \E file \in LoadFiles : Idle(NoFile, file)
    /\ val = None
    /\ data = <<>>

NextLoad ==
    \E start_date \in BoundArgs, end_date \in BoundArgs \ {Str(<<>>)},
       sort_by \in {"date", "other"}, page \in {1, 2},
       page_size \in {1, MAX_RECORDS_PER_REQUEST} :
        CallLoad(start_date, end_date, sort_by, FALSE, page, page_size)

SpecLoad == InitLoad /\ [][NextLoad]_vars

----------------------------------------------------------------------------
(* SpecData: /data and /stats on every short file, for one user who logs in *)

InitData ==
    /\ \E file \in DataFiles : Idle(File(<<U(ana, "p1", "admin")>>), file)
    /\ val = None
    /\ data = <<>>

\* start_date and end_date; sort_by and sort_desc
Filters == {<<None, None>>, <<Str(D_0102), Str(D_bad)>>, <<None, Str(D_0101)>>}
Sorts == {<<"date", FALSE>>, <<"clicks", TRUE>>, <<"other", FALSE>>}

NextData ==
    \/ \E p \in Passwords : Login(ana, p)
    \/ \E e \in logins, f \in Filters, o \in Sorts, page \in 0..(MaxRows + 1),
          page_size \in {0, 1, 2, MAX_RECORDS_PER_REQUEST + 1} :
          GetMetricsData(e.token, f[1], f[2], o[1], o[2], page, page_size)
    \/ \E e \in logins, f \in Filters : GetBasicStats(e.token, f[1], f[2])
    \/ Complete

SpecData == InitData /\ [][NextData]_vars

----------------------------------------------------------------------------
(* Spec: logins, time, edits of users.csv and the protected routes under   *)
(* every credential                                                        *)

Init ==
    /\ \E users \in UserStores, file \in ApiFiles : Idle(users, file)
    /\ val = None
    /\ data = <<>>

Next ==
    \/ \E u \in Usernames, p \in Passwords : Login(u, p)
    \/ \E cred \in Credentials : GetUserInfo(cred)
    \/ \E cred \in Credentials : GetAvailableColumns(cred)
    \/ \E cred \in Credentials, page \in {1, 2} :
          GetMetricsData(cred, None, None, "date", FALSE, page, 25)
    \/ \E cred \in Credentials : GetBasicStats(cred, None, None)
    \/ Complete
    \/ Tick
    \/ \E store \in UserStores : ChangeUsers(store)

Spec == Init /\ [][Next]_vars

----------------------------------------------------------------------------
(* Properties of normalize_num (SpecNorm) *)

\* a number as a person writes it: digits, '.' and ',', a digit at each end
IsNumericString(s) ==
    /\ s # <<>>
    /\ s[1] \in Digits /\ s[Len(s)] \in Digits
    /\ \A i \in 1..Len(s) : s[i] \in Digits \cup {".", ","}

\* the text with the rightmost of '.' and ',' as the decimal point and the
\* other symbol stripped
RightmostDecimal(s) ==
    IF ~Contains(s, ",") THEN s
    ELSE IF RFind(s, ".") > RFind(s, ",") THEN Replace(s, ",", <<>>)
    ELSE Replace(Replace(s, ".", <<>>), ",", <<".">>)

\* C2: normalize_num gives 0.0 for "" and None, and for a numeric string it
\* takes the rightmost of '.' and ',' as the decimal separator, strips the
\* other and parses the rest ("1.234,56" and "1,234.56" both 1234.56, "50"
\* 50.0).  Stated for the strings that read as one number that way.
C2_RightmostSeparatorIsDecimal ==
    ret.fn = "normalize_num" =>
        /\ (val = None \/ val = Str(<<>>)) => ret.result = Returns(Num(0))
        /\ (/\ val.t = "str"
            /\ IsNumericString(val.s)
            /\ FloatOfText(RightmostDecimal(val.s)).exc = "")
           => ret.result = FloatOfText(RightmostDecimal(val.s))

----------------------------------------------------------------------------
(* Properties of load_metrics_optimized (SpecLoad) *)

\* a call that returns every kept row in file order: no sort, one page
WholeLoad ==
    /\ ret.fn = "load_metrics_optimized"
    /\ ret.sort_by = "other"
    /\ ret.page = 1
    /\ ret.page_size = MAX_RECORDS_PER_REQUEST

\* the row's date is text that parses as a date
DateParses(row) ==
    /\ "date" \in DOMAIN row
    /\ row["date"].t = "str"
    /\ Strptime(row["date"]).exc = ""

\* the row's date lies within the bounds, a bound that does not parse or is
\* not given being no bound
InBounds(row, start_date, end_date) ==
    LET d == Strptime(row["date"]).value
        lo == ParseBound(start_date)
        hi == ParseBound(end_date)
    IN  /\ lo.t = "datetime" => lo.n <= d.n
        /\ hi.t = "datetime" => d.n <= hi.n

\* the rows that should be kept
RowsInRange(rows, start_date, end_date) ==
    SelectSeq(rows, LAMBDA row : DateParses(row) /\ InBounds(row, start_date, end_date))

\* data holds the rows of expected, one for one and in order
SameRows(rows, expected) ==
    /\ Len(rows) = Len(expected)
    /\ \A i \in 1..Len(expected) :
          /\ rows[i]["account_id"] = expected[i]["account_id"]
          /\ rows[i]["campaign_id"] = expected[i]["campaign_id"]
          /\ rows[i]["date"] = Strptime(expected[i]["date"]).value

\* text that is no number: a character other than a digit, '.', ',' or ' '
Malformed(v) ==
    /\ v.t = "str"
    /\ \E i \in 1..Len(v.s) : v.s[i] \notin Digits \cup {".", ",", " "}

\* every row's date is text (no row is shorter than the header)
DatesAreText(rows) ==
    \A i \in 1..Len(rows) : "date" \in DOMAIN rows[i] => rows[i]["date"].t = "str"

\* every numeric field of every row is one float() accepts
NumbersParse(rows) ==
    \A i \in 1..Len(rows) : \A f \in NumericFieldSet \cap DOMAIN rows[i] :
        normalize_num(rows[i][f]).exc = ""

\* every numeric field of every row is a number the normalizer reads, or
\* malformed
NumbersParseOrMalformed(rows) ==
    \A i \in 1..Len(rows) : \A f \in NumericFieldSet \cap DOMAIN rows[i] :
        Malformed(rows[i][f]) \/ normalize_num(rows[i][f]).exc = ""

\* C1: a row whose date parses is kept whatever its numeric fields hold, a
\* malformed numeric field being set to 0; only rows with an unparsable
\* date are dropped.  Stated for calls without date bounds on files whose
\* dates are all text and whose other numbers the normalizer reads.
C1_MalformedNumberKeptAsZero ==
    (/\ WholeLoad
     /\ ret.start_date = None /\ ret.end_date = None
     /\ DatesAreText(metrics_csv.rows)
     /\ NumbersParseOrMalformed(metrics_csv.rows))
    => LET expected == RowsInRange(metrics_csv.rows, None, None)
       IN  /\ SameRows(ret.result.data, expected)
           /\ \A i \in 1..Len(expected) :
                 \A f \in NumericFieldSet \cap DOMAIN expected[i] :
                     Malformed(expected[i][f]) => ret.result.data[i][f] = Num(0)

\* C5: the rows kept are exactly the source rows whose date parses and lies
\* within [start_date, end_date], bounds included; a row whose date does
\* not parse is dropped whatever the bounds; a bound that does not parse is
\* no bound.  Stated for files whose numeric fields all parse, where no row
\* is lost to C1.
C5_KeepsExactlyTheRowsInRange ==
    (WholeLoad /\ NumbersParse(metrics_csv.rows))
    => LET expected == RowsInRange(metrics_csv.rows, ret.start_date, ret.end_date)
       IN  /\ SameRows(ret.result.data, expected)
           /\ ret.result.total = Len(expected)

----------------------------------------------------------------------------
(* Properties of sort_data (SpecSort) *)

\* the keys of the rows of data, for the field the call sorted by
Keys == [i \in 1..Len(data) |-> SortKey(data[i], ret.sort_by)]

\* two keys that compare equal (nan equals nothing)
KeyEq(a, b) == a = b /\ ~(a.t = "float" /\ a.nan)

IsPermutation(p, n) ==
    /\ Len(p) = n
    /\ \A k \in 1..n : \E i \in 1..n : p[i] = k

\* ret.order puts the keys in order, ascending or descending
Ordered ==
    \A i \in 1..Len(data) : \A j \in (i + 1)..Len(data) :
        IF ret.sort_desc
        THEN ~KeyLt(Keys[ret.order[i]], Keys[ret.order[j]])
        ELSE ~KeyLt(Keys[ret.order[j]], Keys[ret.order[i]])

\* rows with equal keys keep their relative order
Stable ==
    \A i \in 1..Len(data) : \A j \in (i + 1)..Len(data) :
        KeyEq(Keys[ret.order[i]], Keys[ret.order[j]]) => ret.order[i] < ret.order[j]

SortedCall == ret.fn = "sort_data" /\ ret.sort_by \in SupportedFields

\* C6: sort_data on a supported field returns a permutation of its input,
\* ordered by the field's key (non-decreasing, or non-increasing when
\* sort_desc is set), rows with equal keys keeping their relative order in
\* both directions.
C6_SortedAndStable ==
    SortedCall =>
        /\ IsPermutation(ret.order, Len(data))
        /\ ret.result = Permuted(data, ret.order)
        /\ Ordered
        /\ Stable

\* what holds of sort_data whatever the keys, and of its order when no key
\* is nan
SortedAndStableWithoutNaN ==
    SortedCall =>
        /\ IsPermutation(ret.order, Len(data))
        /\ ret.result = Permuted(data, ret.order)
        /\ (\A i \in 1..Len(data) : ~(Keys[i].t = "float" /\ Keys[i].nan))
           => Ordered /\ Stable

----------------------------------------------------------------------------
(* Properties of /data and /stats (SpecData) *)

\* the rows the loader keeps for the bounds, in file order
KeptRows(start_date, end_date) ==
    IF ~metrics_csv.exists THEN <<>>
    ELSE ValueOr(ReadRows(metrics_csv.rows, ParseBound(start_date),
                          ParseBound(end_date)), <<>>)

\* a /data request that was answered
DataServed == resp.op = "data" /\ resp.response.status = 200

\* page and page_size as the handler clamps them
ClampedPage == Max(1, resp.page)
ClampedSize == Min(resp.page_size, MAX_RECORDS_PER_REQUEST)

\* the kept rows in the order the request asks for
SortedRows ==
    sort_data(KeptRows(resp.start_date, resp.end_date), resp.sort_by, resp.sort_desc)

\* the user the request was served for
ServedUser == UserNamed(load_users(users_csv), resp.cred.sub).value

\* C3: with page clamped to at least 1 and page_size capped at 1000 and at
\* least 1, /data returns min(page_size, max(0, total - (page-1)*page_size))
\* items, total being the number of rows kept for the date bounds, and the
\* items are the rows at positions (page-1)*page_size .. page*page_size - 1
\* of the sorted list.
C3_PageHoldsItsSliceOfTheSortedRows ==
    (DataServed /\ ClampedSize >= 1) =>
        LET rows == SortedRows
            first == (ClampedPage - 1) * ClampedSize
            count == Min(ClampedSize, Max(0, Len(rows) - first))
        IN  /\ Len(resp.response.data) = count
            /\ \A i \in 1..count :
                  resp.response.data[i] = FormatRow(rows[first + i], ServedUser)

\* C3's case: the second page of three rows, two to a page
C3_PartialLastPage ==
    /\ DataServed
    /\ resp.page = 2 /\ resp.page_size = 2
    /\ Len(SortedRows) = 3
    /\ Len(resp.response.data) = 1

\* the least k with k * d >= n
CeilDiv(n, d) == (n + d - 1) \div d

\* C4: for page >= 1 and 1 <= page_size <= 1000, /data reports total, the
\* number of rows kept for the date bounds, and total_pages =
\* ceil(total / page_size), whichever page is asked for; a page beyond the
\* last has no items and the same total and total_pages.
C4_TotalAndPagesOnEveryPage ==
    (/\ DataServed
     /\ resp.page >= 1
     /\ resp.page_size \in 1..MAX_RECORDS_PER_REQUEST)
    => LET total == Len(KeptRows(resp.start_date, resp.end_date))
       IN  /\ resp.response.total = total
           /\ resp.response.total_pages = CeilDiv(total, resp.page_size)

\* a /stats request that was answered
StatsServed == resp.op = "stats" /\ resp.response.status = 200

\* the kept rows by ascending date, and the first SampleSize of them
RowsByDate == sort_data(KeptRows(resp.start_date, resp.end_date), "date", FALSE)
Sample == SubSeq(RowsByDate, 1, Min(Len(RowsByDate), SampleSize))

\* C8: /stats reports as total_records the number of rows kept for the date
\* bounds, also when it exceeds the sample (the first SampleSize rows by
\* ascending date) the sums are taken over; the response names the sample
\* size in its note exactly when the sample is smaller than the total, and
\* has no note when the sample holds every kept row.
C8_TotalIsTrueAndNoteNamesTheSample ==
    StatsServed =>
        LET total == Len(RowsByDate)
            sample == Sample
        IN  /\ resp.response.total_records = total
            /\ total > 0 =>
                  /\ resp.response.total_clicks = format_int(Sum(sample, "clicks"))
                  /\ resp.response.total_conversions
                         = format_int(Sum(sample, "conversions"))
                  /\ resp.response.total_impressions
                         = format_int(Sum(sample, "impressions"))
            /\ total > Len(sample) => resp.response.note = Note(Len(sample))
            /\ total <= Len(sample) =>
                  \/ "note" \notin DOMAIN resp.response
                  \/ resp.response.note = NoNote

\* C8's case: more rows kept than the sample holds
C8_SampleSmallerThanTotal ==
    /\ StatsServed
    /\ resp.response.total_records > SampleSize
    /\ resp.response.note = Note(SampleSize)

----------------------------------------------------------------------------
(* Properties of the protected routes (Spec) *)

ProtectedOps == {"me", "columns", "data", "stats"}

\* a protected call that was made, and one that was served
ProtectedCall == resp.op \in ProtectedOps
Served == ProtectedCall /\ resp.response.status = 200

\* the response of a call rejected with 401 and a WWW-Authenticate challenge
Challenge == [status |-> 401, challenge |-> TRUE]
\* the response of a call rejected with 403
Refusal == [status |-> 403, challenge |-> FALSE]

\* C7: cost_micros is a key of every row of a /data response and a member
\* of the /columns list when the caller's role is admin, and of no row and
\* not of the list when the role is anything else.
C7_CostMicrosOnlyForAdmin ==
    /\ (resp.op = "data" /\ resp.response.status = 200) =>
          \A i \in 1..Len(resp.response.data) :
              ("cost_micros" \in DOMAIN resp.response.data[i])
                  <=> (ServedUser.role = "admin")
    /\ (resp.op = "columns" /\ resp.response.status = 200) =>
          ("cost_micros" \in Range(resp.response.columns))
              <=> (ServedUser.role = "admin")

\* C7's case: rows served to a caller who is no admin
C7_RowsForViewer ==
    /\ resp.op = "data" /\ resp.response.status = 200
    /\ Len(resp.response.data) > 0
    /\ ServedUser.role = "viewer"
    /\ "cost_micros" \notin DOMAIN resp.response.data[1]

\* the credential is a token some login issued, and that login
IssuedBy(cred) == {e \in logins : e.token = cred}
\* the subject of the credential is a username of the user store
KnownUser(cred) ==
    \E i \in 1..Len(load_users(users_csv)) :
        load_users(users_csv)[i].username = cred.sub
\* the credential is not a token of this service
Malformed_Token(cred) ==
    cred.kind = "garbage" \/ (cred.kind = "jwt" /\ cred.key # SECRET_KEY)

\* C9 as claimed: a protected call is served only for a token an earlier
\* login issued, less than 24 hours old, whose subject is in the user store
\* at the time of the call; a missing, malformed or expired token, or one
\* naming an unknown user, is rejected with 401 and a WWW-Authenticate
\* challenge.
C9_ServedOnlyUnder24Hours ==
    /\ Served =>
          /\ \E e \in IssuedBy(resp.cred) : now - e.at < ACCESS_TOKEN_EXPIRE_HOURS
          /\ KnownUser(resp.cred)
    /\ (/\ ProtectedCall
        /\ \/ resp.cred.kind = "none"
           \/ Malformed_Token(resp.cred)
           \/ \E e \in IssuedBy(resp.cred) : now - e.at >= ACCESS_TOKEN_EXPIRE_HOURS
           \/ ~KnownUser(resp.cred))
       => resp.response = Challenge

\* The part of C9 that holds: a protected call is served only for a token an earlier
\* login issued, not more than 24 hours old, whose subject is in the user
\* store at the time of the call; a malformed token, one more than 24 hours
\* old or one naming an unknown user is rejected with 401 and a
\* WWW-Authenticate challenge; a call without credentials is rejected by
\* the bearer scheme, with 403 or with 401 and the challenge.
C9_ServedOnlyUntilExpiry ==
    /\ Served =>
          /\ \E e \in IssuedBy(resp.cred) : now - e.at <= ACCESS_TOKEN_EXPIRE_HOURS
          /\ KnownUser(resp.cred)
    /\ (/\ ProtectedCall
        /\ \/ Malformed_Token(resp.cred)
           \/ \E e \in IssuedBy(resp.cred) : now - e.at > ACCESS_TOKEN_EXPIRE_HOURS
           \/ (resp.cred.kind = "jwt" /\ ~KnownUser(resp.cred)))
       => resp.response = Challenge
    /\ (ProtectedCall /\ resp.cred.kind = "none") =>
          resp.response \in {Challenge, Refusal}

\* a call served for a token exactly 24 hours old
C9_ServedAtExpiry ==
    /\ Served
    /\ \E e \in IssuedBy(resp.cred) : now - e.at = ACCESS_TOKEN_EXPIRE_HOURS

\* C10: with the user store as it was at the login, the role applied to a
\* protected call is the role that login's response gave, whatever the
\* store holds (several records with one username included): /me reports
\* it, and a caller who logged in as no admin gets no cost_micros from
\* /data and /columns.
C10_RoleIsTheLoginRole ==
    Served =>
        \A e \in IssuedBy(resp.cred) :
            e.store = users_csv =>
                /\ resp.op = "me" => resp.response.role = e.role
                /\ (resp.op = "data" /\ e.role # "admin") =>
                      \A i \in 1..Len(resp.response.data) :
                          "cost_micros" \notin DOMAIN resp.response.data[i]
                /\ (resp.op = "columns" /\ e.role # "admin") =>
                      "cost_micros" \notin Range(resp.response.columns)

====
